---- MODULE Spec2Model ----
(***************************************************************************)
(* Model of VideoPlayer (src/VideoPlayer.cpp): one cv::VideoCapture, one   *)
(* decoded frame, a position counter, and the keyboard event loop.         *)
(*                                                                         *)
(* The decoder (cv::VideoCapture) is the environment.  It is modelled by   *)
(* the file's real number of decodable frames, a read cursor, and, per     *)
(* call, whether the decoder is healthy (a read of an existing frame can   *)
(* fail), whether a failed read leaves the destination image stale or      *)
(* releases it, and whether the absolute seek takes effect (the code       *)
(* ignores the result of cap.set).                                         *)
(***************************************************************************)
EXTENDS Integers, Sequences, FiniteSets, TLC

\* ---------------------------------------------------------------- bounds
MaxFrames == 3

\* ------------------------------------------------------------- constants
NoFrame == -1                  \* currentFrame.empty()
DefaultFps == 30               \* fps(30.0) in the constructor
KeyQ == 113
KeyQUpper == 81
KeySpace == 32
KeyD == 100
KeyDUpper == 68
KeyA == 97
KeyAUpper == 65
KeyH == 104
KeyHUpper == 72
KeyE == 101
KeyEUpper == 69
KeyG == 103
KeyGUpper == 71
KeyEsc == 27                   \* ESC, announced as a quit key, no case label
KeyNone == 255                 \* waitKey timeout: -1 & 0xFF
KeyOther == 120                \* 'x', a key without a case label
NoKey == 0                     \* the operation was not issued by a key

\* what waitKey(...) & 0xFF delivers: each case of the switch by its first
\* label, both quit letters, ESC, the timeout and a key without a case (the
\* second labels D, A, H, E, G fall into the cases of d, a, h, e, g)
Keys == {KeyQ, KeyQUpper, KeySpace, KeyD, KeyA, KeyH, KeyE, KeyG, KeyEsc,
         KeyNone, KeyOther}

FrameCounts == 0..MaxFrames            \* what a file holds / metadata reports
FileFps == 24                          \* a rate other than the default
Rates == {FileFps}                     \* CAP_PROP_FPS values
SeekArgs == (-1)..MaxFrames            \* arguments of seekToFrame
NotANumber == -100                     \* console input "abc"
ConsoleInputs == (0..(MaxFrames + 1)) \cup {NotANumber}
Garbage == {0, 2}                      \* values of an uninitialised int

\* the files loadVideo is given: unreadable, or readable with the frames the
\* file holds, the frame count and the rate its metadata reports
Files ==
    {[canOpen |-> FALSE, nFile |-> 0, nMeta |-> 0, rate |-> DefaultFps]} \cup
    [canOpen : {TRUE}, nFile : FrameCounts, nMeta : FrameCounts, rate : Rates]

\* decoder outcome of one call: healthy read, stale-or-released image on a
\* failed read, effective absolute seek
Envs == {e \in [healthy : BOOLEAN, stale : BOOLEAN, seekable : BOOLEAN] :
            e.healthy => e.stale}
ReadEnvs == {e \in Envs : e.seekable}     \* for methods that never seek

VARIABLES
    opened,              \* cap.isOpened()
    fileFrames,          \* frames the opened file really holds
    capPos,              \* decoder read cursor (index of the next read)
    currentFrame,        \* index of the image held in currentFrame, or NoFrame
    totalFrames,
    currentFrameNumber,
    fps,
    pc,                  \* "main": outside startPlayback, "loop", "done"
    playing,
    quit,
    cinFail,             \* std::cin has its failbit set
    out,                 \* console lines written by the last step
    last,                \* the last operation: what ran and what it returned
    prev,                \* the player state before the last operation
    toggledFrom,         \* when the last two operations were both toggles,
                         \* the play state before them; "none" otherwise
    unattended,          \* the loop was set Playing by a toggle and every
                         \* iteration since then was a timeout
    readFailed,          \* a cap.read has returned false since the last load
    loaded,              \* loadVideo has returned true
    run                  \* nextFrame calls since the last successful load,
                         \* -1 once anything else ran in between

vars == <<opened, fileFrames, capPos, currentFrame, totalFrames,
          currentFrameNumber, fps, pc, playing, quit, cinFail, out, last,
          prev, toggledFrom, unattended, readFailed, loaded, run>>

\* what the user types at the prompt of key
Typed(key) ==
    IF key \in {KeyG, KeyGUpper} THEN ConsoleInputs ELSE {0}

\* what targetFrame holds when std::cin >> targetFrame stores nothing
Leftover(key) ==
    IF key \in {KeyG, KeyGUpper} /\ cinFail THEN Garbage ELSE {0}

\* the decoder outcomes that matter to the case of key, given the number
\* its prompt delivers
KeyEnvs(key, inp) ==
    IF key \in {KeyA, KeyAUpper, KeyH, KeyHUpper, KeyE, KeyEUpper}
    THEN Envs
    ELSE IF key \in {KeyG, KeyGUpper}
    THEN (IF inp >= 1 /\ inp <= totalFrames
          THEN Envs
          ELSE {CHOOSE e \in ReadEnvs : e.healthy})
    ELSE IF key \in {KeyQ, KeyQUpper, KeySpace}
    THEN {CHOOSE e \in ReadEnvs : e.healthy}
    ELSE IF key \in {KeyD, KeyDUpper} \/ playing
    THEN ReadEnvs
    ELSE {CHOOSE e \in ReadEnvs : e.healthy}

\* the player's fields and the decoder's, as one record
Cur == [opened |-> opened, file |-> fileFrames, cursor |-> capPos,
        frame |-> currentFrame, total |-> totalFrames,
        pos |-> currentFrameNumber, fps |-> fps]

\* ------------------------------------------------------------ the decoder
\* cap.open(filename): releases what was open, then opens
CapOpen(s, canOpen, nFile) ==
    [s EXCEPT !.opened = canOpen,
              !.file = IF canOpen THEN nFile ELSE 0,
              !.cursor = 0]

\* cap.read(image)
CapRead(s, e) ==
    IF s.opened /\ e.healthy /\ s.cursor < s.file
    THEN [ok |-> TRUE, fault |-> FALSE,
          s |-> [s EXCEPT !.frame = s.cursor, !.cursor = s.cursor + 1]]
    ELSE [ok |-> FALSE, fault |-> s.opened /\ s.cursor < s.file,
          s |-> [s EXCEPT !.frame = IF e.stale THEN s.frame ELSE NoFrame]]

\* cap.set(cv::CAP_PROP_POS_FRAMES, n)
CapSet(s, n, e) ==
    IF s.opened /\ e.seekable
    THEN [fault |-> FALSE, s |-> [s EXCEPT !.cursor = n]]
    ELSE [fault |-> s.opened, s |-> s]

\* a method's result: new state, return value, decoder calls made, output
Result(s, ret, reads, seeks, fault, o) ==
    [s |-> s, ret |-> ret, reads |-> reads, seeks |-> seeks,
     fault |-> fault, out |-> o]

\* ------------------------------------------------------- VideoPlayer methods
\* loadVideo counting frames from one: the position starts at 1
loadVideo_oneBased(s, canOpen, nFile, nMeta, rate, e) ==
    LET o == CapOpen(s, canOpen, nFile) IN
    IF ~o.opened
    THEN Result(o, FALSE, 0, 0, FALSE, <<"Error: Cannot open video file">>)
    ELSE LET t == [o EXCEPT !.total = nMeta, !.fps = rate, !.pos = 1]
             r == CapRead(t, e)
         IN  IF ~r.ok
             THEN Result(r.s, FALSE, 1, 0, r.fault,
                         <<"Error: Cannot read first frame">>)
             ELSE Result(r.s, TRUE, 1, 0, FALSE,
                         <<"Video loaded successfully">>)

\* bool loadVideo(const std::string& filename)
loadVideo(s, canOpen, nFile, nMeta, rate, e) ==
    LET o == CapOpen(s, canOpen, nFile) IN
    IF ~o.opened
    THEN Result(o, FALSE, 0, 0, FALSE, <<"Error: Cannot open video file">>)
    ELSE LET t == [o EXCEPT !.total = nMeta, !.fps = rate, !.pos = 0]
             r == CapRead(t, e)
         IN  IF ~r.ok
             THEN Result(r.s, FALSE, 1, 0, r.fault,
                         <<"Error: Cannot read first frame">>)
             ELSE Result(r.s, TRUE, 1, 0, FALSE,
                         <<"Video loaded successfully">>)

\* nextFrame with the end test off by one (> for >=)
nextFrame_pastEnd(s, e) ==
    IF s.pos > s.total - 1
    THEN Result(s, FALSE, 0, 0, FALSE, <<>>)
    ELSE LET r == CapRead(s, e) IN
         IF r.ok
         THEN Result([r.s EXCEPT !.pos = s.pos + 1], TRUE, 1, 0, FALSE, <<>>)
         ELSE Result(r.s, FALSE, 1, 0, r.fault, <<>>)

\* nextFrame counting the frame before the read is known to have succeeded
nextFrame_countFirst(s, e) ==
    IF s.pos >= s.total - 1
    THEN Result(s, FALSE, 0, 0, FALSE, <<>>)
    ELSE LET r == CapRead(s, e) IN
         Result([r.s EXCEPT !.pos = s.pos + 1], r.ok, 1, 0, r.fault, <<>>)

\* bool nextFrame()
nextFrame(s, e) ==
    IF s.pos >= s.total - 1
    THEN Result(s, FALSE, 0, 0, FALSE, <<>>)
    ELSE LET r == CapRead(s, e) IN
         IF r.ok
         THEN Result([r.s EXCEPT !.pos = s.pos + 1], TRUE, 1, 0, FALSE, <<>>)
         ELSE Result(r.s, FALSE, 1, 0, r.fault, <<>>)

\* previousFrame with the start test off by one (< for <=)
previousFrame_belowStart(s, e) ==
    IF s.pos < 0
    THEN Result(s, FALSE, 0, 0, FALSE, <<>>)
    ELSE LET d == [s EXCEPT !.pos = s.pos - 1]
             k == CapSet(d, d.pos, e)
             r == CapRead(k.s, e)
         IN  Result(r.s, r.ok, 1, 1, k.fault \/ r.fault, <<>>)

\* bool previousFrame()
previousFrame(s, e) ==
    IF s.pos <= 0
    THEN Result(s, FALSE, 0, 0, FALSE, <<>>)
    ELSE LET d == [s EXCEPT !.pos = s.pos - 1]
             k == CapSet(d, d.pos, e)
             r == CapRead(k.s, e)
         IN  Result(r.s, r.ok, 1, 1, k.fault \/ r.fault, <<>>)

\* seekToFrame storing the target before the read, as previousFrame does
seekToFrame_storeFirst(s, frameNumber, e) ==
    IF frameNumber < 0 \/ frameNumber >= s.total
    THEN Result(s, FALSE, 0, 0, FALSE, <<>>)
    ELSE LET d == [s EXCEPT !.pos = frameNumber]
             k == CapSet(d, frameNumber, e)
             r == CapRead(k.s, e)
         IN  Result(r.s, r.ok, 1, 1, k.fault \/ r.fault, <<>>)

\* seekToFrame that reads the frame but never stores the target
seekToFrame_noStore(s, frameNumber, e) ==
    IF frameNumber < 0 \/ frameNumber >= s.total
    THEN Result(s, FALSE, 0, 0, FALSE, <<>>)
    ELSE LET k == CapSet(s, frameNumber, e)
             r == CapRead(k.s, e)
         IN  Result(r.s, r.ok, 1, 1, k.fault \/ r.fault, <<>>)

\* bool seekToFrame(int frameNumber)
seekToFrame(s, frameNumber, e) ==
    IF frameNumber < 0 \/ frameNumber >= s.total
    THEN Result(s, FALSE, 0, 0, FALSE, <<>>)
    ELSE LET k == CapSet(s, frameNumber, e)
             r == CapRead(k.s, e)
         IN  IF r.ok
             THEN Result([r.s EXCEPT !.pos = frameNumber], TRUE, 1, 1,
                         k.fault, <<>>)
             ELSE Result(r.s, FALSE, 1, 1, k.fault \/ r.fault, <<>>)

\* int getCurrentFrame() const
getCurrentFrame == currentFrameNumber

\* int getTotalFrames() const
getTotalFrames == totalFrames

\* std::cin >> targetFrame, with targetFrame declared without a value: a
\* number is stored; a non-number stores 0 and sets the failbit; with the
\* failbit already set nothing is read or stored, whatever is typed, and the
\* variable is used uninitialised
ReadTarget(inp, garbage) ==
    IF cinFail THEN [value |-> garbage, fail |-> TRUE]
    ELSE IF inp = NotANumber THEN [value |-> 0, fail |-> TRUE]
    ELSE [value |-> inp, fail |-> FALSE]

\* what one case of the switch leaves: the method it called and the method's
\* result, the lines it printed, and the loop's locals afterwards
Case(op, arg, r, o, p, q, cf) ==
    [op |-> op, arg |-> arg, r |-> [r EXCEPT !.out = o],
     playing |-> p, quit |-> q, cinFail |-> cf]

\* a case that calls no method
Idle(s) == Result(s, TRUE, 0, 0, FALSE, <<>>)

\* case 'q': case 'Q':
CaseQuit(s) ==
    Case("quit", 0, Idle(s), <<>>, playing, TRUE, cinFail)

\* the toggle key starting playback whatever the play state is
CaseToggle_alwaysPlay(s) ==
    Case("toggle", 0, Idle(s), <<"Playing">>, TRUE, quit, cinFail)

\* case ' ':
CaseToggle(s) ==
    Case("toggle", 0, Idle(s), <<IF ~playing THEN "Playing" ELSE "Paused">>,
         ~playing, quit, cinFail)

\* the step-forward key leaving the play state alone when nextFrame fails
CaseNext_keepsPlaying(s, e) ==
    LET r == nextFrame(s, e) IN
    Case("next", 0, r, IF ~r.ret THEN <<"End of video reached">> ELSE <<>>,
         playing, quit, cinFail)

\* case 'd': case 'D':
CaseNext(s, e) ==
    LET r == nextFrame(s, e) IN
    IF ~r.ret
    THEN Case("next", 0, r, <<"End of video reached">>, FALSE, quit, cinFail)
    ELSE Case("next", 0, r, <<>>, playing, quit, cinFail)

\* the step-backward key pausing playback when previousFrame fails, as the
\* step-forward key does
CasePrev_pausesOnFailure(s, e) ==
    LET r == previousFrame(s, e) IN
    Case("prev", 0, r,
         IF ~r.ret THEN <<"Beginning of video reached">> ELSE <<>>,
         IF ~r.ret THEN FALSE ELSE playing, quit, cinFail)

\* case 'a': case 'A':
CasePrev(s, e) ==
    LET r == previousFrame(s, e) IN
    Case("prev", 0, r,
         IF ~r.ret THEN <<"Beginning of video reached">> ELSE <<>>,
         playing, quit, cinFail)

\* case 'h': case 'H':
CaseFirst(s, e) ==
    Case("seek", 0, seekToFrame(s, 0, e), <<"Jumped to first frame">>,
         playing, quit, cinFail)

\* case 'e': case 'E':
CaseLast(s, e) ==
    Case("seek", s.total - 1, seekToFrame(s, s.total - 1, e),
         <<"Jumped to last frame">>, playing, quit, cinFail)

\* case 'g': case 'G':
CaseGoto(s, inp, garbage, e) ==
    LET t == ReadTarget(inp, garbage) IN
    IF t.value >= 1 /\ t.value <= s.total
    THEN Case("seek", t.value - 1, seekToFrame(s, t.value - 1, e),
              <<"Enter frame number", "Jumped to frame">>,
              playing, quit, t.fail)
    ELSE Case("invalid", t.value, [Idle(s) EXCEPT !.ret = FALSE],
              <<"Enter frame number", "Invalid frame number!">>,
              playing, quit, t.fail)

\* default:
CaseDefault(s, e) ==
    IF playing
    THEN LET r == nextFrame(s, e) IN
         IF ~r.ret
         THEN Case("next", 0, r, <<"End of video reached">>, FALSE, quit,
                   cinFail)
         ELSE Case("next", 0, r, <<>>, playing, quit, cinFail)
    ELSE Case("idle", 0, Idle(s), <<>>, playing, quit, cinFail)

\* the switch (key) of startPlayback
Dispatch(s, key, inp, garbage, e) ==
    IF key \in {KeyQ, KeyQUpper} THEN CaseQuit(s)
    ELSE IF key = KeySpace THEN CaseToggle(s)
    ELSE IF key \in {KeyD, KeyDUpper} THEN CaseNext(s, e)
    ELSE IF key \in {KeyA, KeyAUpper} THEN CasePrev(s, e)
    ELSE IF key \in {KeyH, KeyHUpper} THEN CaseFirst(s, e)
    ELSE IF key \in {KeyE, KeyEUpper} THEN CaseLast(s, e)
    ELSE IF key \in {KeyG, KeyGUpper} THEN CaseGoto(s, inp, garbage, e)
    ELSE CaseDefault(s, e)

\* ------------------------------------------------------------------ state
Init ==
    /\ opened = FALSE
    /\ fileFrames = 0
    /\ capPos = 0
    /\ currentFrame = NoFrame
    /\ totalFrames = 0
    /\ currentFrameNumber = 0
    /\ fps = DefaultFps
    /\ pc = "main"
    /\ playing = FALSE
    /\ quit = FALSE
    /\ cinFail = FALSE
    /\ out = <<>>
    /\ last = [op |-> "none", arg |-> 0, key |-> NoKey, typed |-> 0,
               ret |-> FALSE, reads |-> 0, seeks |-> 0]
    /\ prev = [cursor |-> 0, frame |-> NoFrame,
               total |-> 0, pos |-> 0, playing |-> FALSE]
    /\ toggledFrom = "none"
    /\ unattended = FALSE
    /\ readFailed = FALSE
    /\ loaded = FALSE
    /\ run = -1

\* history of the step: the operation, its result, the state it started in
Record(r, op, arg, key, typed) ==
    /\ last' = [op |-> op, arg |-> arg, key |-> key, typed |-> typed,
                ret |-> r.ret, reads |-> r.reads, seeks |-> r.seeks]
    /\ toggledFrom' = IF op = "toggle" /\ last.op = "toggle"
                      THEN (IF prev.playing THEN "Playing" ELSE "Paused")
                      ELSE "none"
    /\ unattended' = IF op = "toggle" THEN ~playing
                     ELSE (unattended /\ key = KeyNone)
    /\ readFailed' = IF op = "load" THEN ~r.ret
                     ELSE (readFailed \/ (r.reads = 1 /\ ~r.ret))
    /\ prev' = [cursor |-> capPos, frame |-> currentFrame,
                total |-> totalFrames, pos |-> currentFrameNumber,
                playing |-> playing]
    /\ loaded' = IF op = "load" THEN r.ret ELSE loaded
    /\ run' = CASE op = "load" -> IF r.ret THEN 0 ELSE -1
                [] op = "next" -> IF run \in 0..MaxFrames THEN run + 1 ELSE -1
                [] op \in {"prev", "seek"} -> -1
                [] OTHER -> run

\* the fields a method leaves behind
Store(r) ==
    /\ opened' = r.s.opened
    /\ fileFrames' = r.s.file
    /\ capPos' = r.s.cursor
    /\ currentFrame' = r.s.frame
    /\ totalFrames' = r.s.total
    /\ currentFrameNumber' = r.s.pos
    /\ fps' = r.s.fps
    /\ out' = r.out

\* ---------------------------------------------------------------- actions
\* main(): player.loadVideo(videoFile) on the new player; a failure makes
\* main return -1, a success is followed by startPlayback
Main ==
    /\ pc = "main"
    /\ last.op = "none"
    /\ \E f \in Files, e \in ReadEnvs :
         \E r \in {loadVideo(Cur, f.canOpen, f.nFile, f.nMeta, f.rate, e)} :
         /\ Store(r)
         /\ Record(r, "load", 0, NoKey, 0)
         /\ pc' = IF r.ret THEN "main" ELSE "done"
    /\ UNCHANGED <<playing, quit, cinFail>>

\* player.loadVideo(videoFile), called by a client of the class, on a new
\* player or to reopen
LoadVideo ==
    /\ pc = "main"
    /\ \E f \in Files, e \in ReadEnvs :
         \E r \in {loadVideo(Cur, f.canOpen, f.nFile, f.nMeta, f.rate, e)} :
         /\ Store(r)
         /\ Record(r, "load", 0, NoKey, 0)
    /\ UNCHANGED <<pc, playing, quit, cinFail>>

\* player.nextFrame()
NextFrame ==
    /\ pc = "main"
    /\ \E e \in ReadEnvs :
         \E r \in {nextFrame(Cur, e)} :
         /\ Store(r)
         /\ Record(r, "next", 0, NoKey, 0)
    /\ UNCHANGED <<pc, playing, quit, cinFail>>

\* player.previousFrame()
PreviousFrame ==
    /\ pc = "main"
    /\ \E e \in Envs :
         \E r \in {previousFrame(Cur, e)} :
         /\ Store(r)
         /\ Record(r, "prev", 0, NoKey, 0)
    /\ UNCHANGED <<pc, playing, quit, cinFail>>

\* player.seekToFrame(n)
SeekToFrame ==
    /\ pc = "main"
    /\ \E n \in SeekArgs, e \in Envs :
         \E r \in {seekToFrame(Cur, n, e)} :
         /\ Store(r)
         /\ Record(r, "seek", n, NoKey, 0)
    /\ UNCHANGED <<pc, playing, quit, cinFail>>

\* player.startPlayback() up to the loop head
StartPlayback ==
    /\ pc = "main"
    /\ IF currentFrame = NoFrame
       THEN /\ out' = <<"No video loaded!">>
            /\ Record(Result(Cur, FALSE, 0, 0, FALSE, <<>>), "start", 0, NoKey, 0)
            /\ UNCHANGED <<pc, playing, quit>>
       ELSE /\ out' = <<"controls">>
            /\ Record(Result(Cur, TRUE, 0, 0, FALSE, <<>>), "start", 0, NoKey, 0)
            /\ pc' = "loop"
            /\ playing' = FALSE
            /\ quit' = FALSE
    /\ UNCHANGED <<opened, fileFrames, capPos, currentFrame, totalFrames,
                   currentFrameNumber, fps, cinFail>>

\* one iteration of while (!quit): display, progress line, waitKey, switch;
\* when the switch sets quit the loop ends and the windows are destroyed
LoopIteration ==
    /\ pc = "loop"
    /\ \E key \in Keys :
       \E inp \in Typed(key), garbage \in Leftover(key) :
       \E e \in KeyEnvs(key, IF cinFail THEN garbage ELSE inp) :
         /\ key = KeyNone => playing      \* waitKey(0) never times out
         /\ \E c \in {Dispatch(Cur, key, inp, garbage, e)} :
            /\ Store([c.r EXCEPT !.out =
                         <<"Frame">> \o c.r.out \o
                         (IF c.quit THEN <<"Playback stopped.">> ELSE <<>>)])
            /\ Record(c.r, c.op, c.arg, key, inp)
            /\ playing' = c.playing
            /\ quit' = c.quit
            /\ cinFail' = c.cinFail
            /\ pc' = IF c.quit THEN "done" ELSE "loop"

\* the program: main loads the file and runs the event loop
Next ==
    \/ Main
    \/ StartPlayback
    \/ LoopIteration

Spec == Init /\ [][Next]_vars

\* a client of the class calling its navigation methods in any order
NextApi ==
    \/ LoadVideo
    \/ NextFrame
    \/ PreviousFrame
    \/ SeekToFrame

ApiSpec == Init /\ [][NextApi]_vars

TypeOK ==
    /\ opened \in BOOLEAN
    /\ fileFrames \in FrameCounts
    /\ capPos \in 0..(MaxFrames + 1)
    /\ currentFrame \in {NoFrame} \cup (0..MaxFrames)
    /\ totalFrames \in FrameCounts
    /\ currentFrameNumber \in 0..MaxFrames
    /\ fps \in Rates \cup {DefaultFps}
    /\ pc \in {"main", "loop", "done"}
    /\ playing \in BOOLEAN
    /\ quit \in BOOLEAN
    /\ cinFail \in BOOLEAN
    /\ run \in (-1)..(MaxFrames + 1)
    /\ toggledFrom \in {"none", "Paused", "Playing"}
    /\ unattended \in BOOLEAN
    /\ readFailed \in BOOLEAN
    /\ loaded \in BOOLEAN

\* ----------------------------------------------------------------- claims
\* the methods that move the position
Navigation == {"load", "next", "prev", "seek"}

\* C1: after a successful load the position stays within [0, totalFrames-1],
\* whatever frame count the metadata reported.
C1_PositionInRange ==
    loaded => (0 <= currentFrameNumber /\ currentFrameNumber <= totalFrames - 1)

\* C2: whenever load, advance, retreat or seek returns success, the position
\* is the index of the frame held in the decoded-frame slot.
C2_SuccessKeepsPositionOnFrame ==
    (loaded /\ last.op \in Navigation /\ last.ret) =>
        currentFrame = currentFrameNumber

\* C3: load returns success exactly when the file opened, the stream does not
\* report zero frames and the first frame was read.
C3_LoadFailsInThreeCases ==
    last.op = "load" =>
        (last.ret <=> (opened /\ totalFrames # 0 /\ currentFrame = 0))

\* C4: a load that returns failure leaves the stream handle not open and
\* totalFrames, position and decoded frame as they were before the call.
C4_FailedLoadLeavesUnopened ==
    (last.op = "load" /\ ~last.ret) =>
        /\ ~opened
        /\ totalFrames = prev.total
        /\ currentFrameNumber = prev.pos
        /\ currentFrame = prev.frame

\* the last operation was seekToFrame with a target inside [0, totalFrames-1]
\* on a loaded player
ValidSeek ==
    /\ loaded
    /\ last.op = "seek"
    /\ 0 <= last.arg
    /\ last.arg <= prev.total - 1

\* C5 as stated: after seek(n) with a valid n the position query returns n.
C5_SeekThenQuery ==
    ValidSeek => getCurrentFrame = last.arg

\* C5 as amended: after a seek(n) with a valid n that returned success the
\* position query returns n.
C5_SuccessfulSeekThenQuery ==
    (ValidSeek /\ last.ret) => getCurrentFrame = last.arg

C5_Witness ==
    /\ ValidSeek
    /\ last.ret
    /\ last.arg # prev.pos
    /\ last.arg > 0

\* C6: a seek to a target outside [0, totalFrames-1] fails, and every seek
\* that fails leaves the position unchanged.
C6_FailedSeekKeepsPosition ==
    last.op = "seek" =>
        /\ (last.arg < 0 \/ last.arg >= prev.total) => ~last.ret
        /\ ~last.ret => currentFrameNumber = prev.pos

C6_Witness ==
    /\ ValidSeek
    /\ ~last.ret
    /\ last.reads = 1
    /\ last.arg # prev.pos

\* C7: advance at position totalFrames-1 fails and changes neither the
\* position, the decoded frame nor the decoder's read cursor.
C7_AdvanceAtLastFrame ==
    (last.op = "next" /\ prev.pos = prev.total - 1) =>
        /\ ~last.ret
        /\ last.reads = 0
        /\ currentFrameNumber = prev.pos
        /\ currentFrame = prev.frame
        /\ capPos = prev.cursor
        /\ totalFrames = prev.total

C7_Witness ==
    /\ loaded
    /\ last.op = "next"
    /\ prev.pos = prev.total - 1
    /\ prev.cursor < fileFrames

\* C8: advance at a position p below totalFrames-1 makes one sequential read;
\* if it succeeds the result is success, position p+1 and the frame at the
\* cursor in the slot; if it fails the result is failure and position p.
C8_AdvanceBelowLastFrame ==
    (last.op = "next" /\ prev.pos < prev.total - 1) =>
        /\ last.reads = 1
        /\ last.seeks = 0
        /\ last.ret =>
              /\ currentFrameNumber = prev.pos + 1
              /\ currentFrame = prev.cursor
              /\ capPos = prev.cursor + 1
        /\ ~last.ret =>
              /\ currentFrameNumber = prev.pos
              /\ capPos = prev.cursor

C8_Witness ==
    /\ loaded
    /\ last.op = "next"
    /\ prev.pos < prev.total - 1
    /\ ~last.ret
    /\ prev.cursor < fileFrames

\* the nextFrame calls counted by run followed a successful load of a video
\* whose metadata holds its real frame count, and no read has failed
CleanRun ==
    /\ run >= 1
    /\ last.op = "next"
    /\ ~readFailed
    /\ totalFrames = fileFrames

\* C9: after a successful load of an N-frame video, with every read of an
\* existing frame succeeding, the k-th consecutive advance (k <= N-1)
\* succeeds and leaves position k, and the N-th fails at position N-1.
C9_AdvanceToTheEnd ==
    CleanRun =>
        /\ run <= totalFrames - 1 => (last.ret /\ currentFrameNumber = run)
        /\ run >= totalFrames =>
              (~last.ret /\ currentFrameNumber = totalFrames - 1)

C9_Witness ==
    /\ CleanRun
    /\ totalFrames >= 3
    /\ run = totalFrames
    /\ ~last.ret
    /\ currentFrameNumber = totalFrames - 1

\* C10: retreat at position 0 fails, leaves the position at 0 and performs
\* no seek and no read.
C10_RetreatAtStart ==
    (last.op = "prev" /\ prev.pos = 0) =>
        /\ ~last.ret
        /\ currentFrameNumber = 0
        /\ last.seeks = 0
        /\ last.reads = 0
        /\ capPos = prev.cursor
        /\ currentFrame = prev.frame

C10_Witness ==
    /\ loaded
    /\ last.op = "prev"
    /\ prev.pos = 0
    /\ totalFrames >= 2
    /\ prev.cursor > 0

\* C11: for every n with 1 <= n <= totalFrames-1, seek(n) followed by
\* retreat leaves position n-1 and the frame of index n-1 in the decoded
\* frame slot; stated for a seek and a retreat that both return success.
C11_SeekThenRetreat ==
    [][(/\ loaded
        /\ last.op = "seek" /\ last.ret /\ last.arg >= 1
        /\ last'.op = "prev" /\ last'.ret)
       => (/\ currentFrameNumber' = last.arg - 1
           /\ currentFrame' = last.arg - 1)]_vars

\* C12: at the jump-to-frame prompt, at any point of the session, a typed
\* integer k with 1 <= k <= totalFrames moves the position to k-1 (unless
\* the seek it issues fails), and a typed input out of that range or not a
\* number is rejected as invalid and leaves the position unchanged.
C12_JumpToPrompt ==
    last.key = KeyG =>
        IF last.typed >= 1 /\ last.typed <= prev.total
        THEN \/ currentFrameNumber = last.typed - 1
             \/ (last.op = "seek" /\ last.arg = last.typed - 1 /\ ~last.ret)
        ELSE /\ last.op = "invalid"
             /\ currentFrameNumber = prev.pos

\* C13: two consecutive toggle-play keys return the play state to the value
\* it had before them, and a toggle inverts the play state and changes
\* neither the position, the decoded frame nor the decoder's cursor.
C13_ToggleTwice ==
    /\ last.op = "toggle" =>
          /\ playing = ~prev.playing
          /\ currentFrameNumber = prev.pos
          /\ currentFrame = prev.frame
          /\ capPos = prev.cursor
          /\ totalFrames = prev.total
    /\ toggledFrom = "Playing" => playing
    /\ toggledFrom = "Paused" => ~playing

C13_Witness ==
    /\ toggledFrom = "Playing"
    /\ last.op = "toggle"
    /\ playing
    /\ currentFrameNumber > 0

\* the last loop iteration called nextFrame and it returned false
FailedAdvance ==
    /\ last.key # NoKey
    /\ last.op = "next"
    /\ ~last.ret

\* C14: in the event loop, whenever advance fails (on a step-forward key in
\* either play state, or on a timeout while Playing) the loop is Paused
\* after that iteration and the position is unchanged; a timeout or an
\* unrecognised key while Paused changes nothing.
C14_FailedAdvancePauses ==
    /\ FailedAdvance =>
          /\ ~playing
          /\ currentFrameNumber = prev.pos
          /\ pc = "loop"
    /\ (last.key \in {KeyNone, KeyOther} /\ ~prev.playing) =>
          /\ last.op = "idle"
          /\ ~playing
          /\ currentFrameNumber = prev.pos
          /\ currentFrame = prev.frame
          /\ capPos = prev.cursor
          /\ totalFrames = prev.total
          /\ pc = "loop"

C14_Witness ==
    /\ FailedAdvance
    /\ last.key = KeyD
    /\ prev.playing
    /\ last.reads = 1
    /\ prev.pos > 0

\* C15: in both play states a quit key, ESC or Q as the printed controls
\* list states, moves the loop to Stopped in that iteration, and Stopped is
\* reached by no other event.
C15_QuitKeysStop ==
    /\ last.key \in {KeyEsc, KeyQ, KeyQUpper} => (quit /\ pc = "done")
    /\ (pc = "done" /\ last.key # NoKey) =>
          last.key \in {KeyEsc, KeyQ, KeyQUpper}

\* the lines that report a failure, and those that report a success
FailureLines ==
    {"End of video reached", "Beginning of video reached",
     "Invalid frame number!"}
SuccessLines ==
    {"Jumped to first frame", "Jumped to last frame", "Jumped to frame"}

\* the number of lines of o that are in set
Count(o, set) == Cardinality({i \in DOMAIN o : o[i] \in set})

\* C16: in the event loop every failing operation (a failed advance, a
\* failed retreat, a failed seek issued by jump-first, jump-last or jump-to,
\* an invalid jump-to input) is reported exactly once as a failure on the
\* console in that iteration, never as a success, and is not retried;
\* stated for a video whose metadata reports at least one frame.
C16_FailureReportedOnce ==
    (last.key # NoKey /\ last.op \in {"next", "prev", "seek", "invalid"}
                      /\ ~last.ret /\ prev.total >= 1) =>
        /\ Count(out, FailureLines) = 1
        /\ Count(out, SuccessLines) = 0
        /\ last.reads <= 1
        /\ last.seeks <= 1

\* C17: in the event loop the play state changes only on a toggle-play key
\* and on a failed advance: step-backward (successful or failed),
\* jump-first, jump-last and jump-to (valid or invalid, seek successful or
\* failed) leave the play state as it was.
C17_PlayStateChanges ==
    last.key # NoKey =>
        /\ playing # prev.playing => (last.op = "toggle" \/ FailedAdvance)
        /\ last.key \in {KeyA, KeyH, KeyE, KeyG} => playing = prev.playing

C17_Witness ==
    /\ last.key = KeyA
    /\ ~last.ret
    /\ prev.pos > 0
    /\ prev.playing
    /\ playing

\* C18: a retreat at position p > 0 whose seek/read fails returns failure
\* with the position decremented to p-1 while the decoded-frame slot does
\* not hold frame p-1, and it is the only failing operation that changes
\* the position.
C18_FailedRetreatMovesPosition ==
    loaded =>
        /\ (last.op = "prev" /\ prev.pos > 0 /\ ~last.ret) =>
              /\ currentFrameNumber = prev.pos - 1
              /\ currentFrame # prev.pos - 1
        /\ (last.op \in {"next", "prev", "seek"} /\ ~last.ret
                /\ currentFrameNumber # prev.pos) =>
              (last.op = "prev" /\ prev.pos > 0)

\* C19: in every state reached after a successful load by operations whose
\* decoder reads all succeeded, the decoder's next-read index is position+1,
\* and a successful advance yields the frame of index position+1.
C19_CursorFollowsPosition ==
    (loaded /\ ~readFailed) =>
        /\ capPos = currentFrameNumber + 1
        /\ (last.op = "next" /\ last.ret) => currentFrame = prev.pos + 1

\* the last loop iteration was a timeout of a loop left Playing without a
\* key since the toggle that started playback
Timeout == last.key = KeyNone /\ last.op = "next" /\ unattended

\* C20: once the loop is Playing, with no key pressed and every decoder read
\* of an existing frame succeeding, the position increases by exactly one
\* per timeout and the loop becomes Paused with position totalFrames-1:
\* the timeout whose advance fails, on a video holding the frames its
\* metadata reports and without a failed read of an existing frame, pauses
\* the loop at position totalFrames-1.
C20_PlaysToTheLastFrame ==
    Timeout =>
        /\ last.ret => (currentFrameNumber = prev.pos + 1 /\ playing)
        /\ (/\ ~last.ret
            /\ 1 <= totalFrames /\ totalFrames = fileFrames
            /\ last.reads = 1 => prev.cursor >= fileFrames) =>
              (~playing /\ currentFrameNumber = totalFrames - 1)

====
